---- MODULE Spec2Model ----
(***************************************************************************)
(* A model of page.go of bbolt: the page header and its type name, the     *)
(* branch and leaf element records laid over the bytes of a page, and the  *)
(* merge of page-id lists (pgids.merge, mergepgids).                        *)
(*                                                                         *)
(* Memory is a sequence of bytes: an address is an offset into mem and the *)
(* byte at address x is mem[x + 1].  A Go slice over raw memory is its     *)
(* header [Data, Len, Cap]; a slice of pgids is the sequence of its        *)
(* elements.  Multi-byte fields are little-endian.                         *)
(***************************************************************************)
EXTENDS Integers, Sequences, FiniteSets, Bags, TLC

VARIABLES
    a, b,          \* the two pgids arguments of merge / mergepgids
    dst,           \* the destination slice of mergepgids (its backing array)
    dst0,          \* dst as it was when mergepgids was called
    lead, follow,  \* the two cursors of the loop of mergepgids
    mlen,          \* len(merged); merged is dst[:mlen]
    iters,         \* iterations of the loop begun so far
    lastN,         \* n of the last iteration (0 before the first)
    pc,            \* position of the running call
    ret,           \* the slice merge returned
    retFrom,       \* the storage ret refers to: "a", "b" or "merged"
    p,             \* a page header: [id, flags, count, overflow]
    typResult,     \* the string typ returned
    mem,           \* the mapped bytes; the byte at address x is mem[x + 1]
    ptr,           \* the page pointer: the address of the page header in mem
    kvs,           \* the (key, value) pairs that were laid out
    elems,         \* the slice header leafPageElements / branchPageElements returned
    got,           \* the (key, value) byte strings read back, in order
    acc,           \* the accumulated pgids of a chain of merges
    ids,           \* the bag of all ids merged into acc so far
    steps,         \* number of merges of the chain so far
    shared         \* per step of the chain: did its two inputs share a value

mergeVars == <<a, b, dst, dst0, lead, follow, mlen, iters, lastN, ret, retFrom>>
typVars   == <<p, typResult>>
pageVars  == <<mem, ptr, kvs, elems, got>>
chainVars == <<acc, ids, steps, shared>>
vars      == <<mergeVars, typVars, pageVars, chainVars, pc>>

(***************************************************************************)
(* Bounds of the model.                                                    *)
(***************************************************************************)
MaxPgid    == 4    \* page ids of merge are drawn from 1..MaxPgid
MaxLen     == 3    \* longest argument of merge
IntoPgid   == 4    \* page ids of mergepgids are drawn from 1..IntoPgid
IntoLen    == 2    \* longest argument of mergepgids
MaxSlack   == 1    \* len(dst) ranges up to len(a)+len(b)+MaxSlack
MaxSteps   == 3    \* longest chain of merges
MaxCount   == 2    \* most elements on a page
MaxKeyLen  == 1    \* longest key and longest value, in bytes
MaxField   == 1    \* id, count and overflow of a typed page are drawn from 0..MaxField
MaxFlags   == 65535  \* flags is a uint16

RECURSIVE SeqsUpTo(_, _)
SeqsUpTo(S, n) ==
    IF n = 0 THEN {<<>>}
    ELSE LET shorter == SeqsUpTo(S, n - 1)
         IN  shorter \cup {Append(s, x) : s \in {t \in shorter : Len(t) = n - 1}, x \in S}

Range(s) == {s[i] : i \in 1..Len(s)}

\* the bag of the values of s, with multiplicity
BagOf(s) == [v \in Range(s) |-> Cardinality({i \in 1..Len(s) : s[i] = v})]

StrictAsc(s) == \A i \in 1..(Len(s) - 1) : s[i] < s[i + 1]
Asc(s)       == \A i \in 1..(Len(s) - 1) : s[i] <= s[i + 1]

(***************************************************************************)
(* pgids.merge and mergepgids.                                             *)
(***************************************************************************)

\* sort.Search(n, f) with f(i) = (s[i] > x), i from 0: the binary search of
\* the Go library, whatever the order of s.
RECURSIVE SearchFrom(_, _, _, _)
SearchFrom(i, j, s, x) ==
    IF i < j
    THEN LET h == (i + j) \div 2
         IN  IF ~(s[h + 1] > x) THEN SearchFrom(h + 1, j, s, x)
                                ELSE SearchFrom(i, h, s, x)
    ELSE i

\* a search for the first element >= x instead of > x
RECURSIVE SearchGeqFrom(_, _, _, _)
SearchGeqFrom(i, j, s, x) ==
    IF i < j
    THEN LET h == (i + j) \div 2
         IN  IF ~(s[h + 1] >= x) THEN SearchGeqFrom(h + 1, j, s, x)
                                 ELSE SearchGeqFrom(i, h, s, x)
    ELSE i

SearchGeq(s, x) == SearchGeqFrom(0, Len(s), s, x)

Search(s, x) == SearchFrom(0, Len(s), s, x)

\* make(pgids, n): n zeroed page ids
Make(n) == [i \in 1..n |-> 0]

\* copy(d, s): the first min(len(d), len(s)) elements of d are overwritten
Copy(d, s) ==
    [i \in 1..Len(d) |-> IF i <= Len(s) THEN s[i] ELSE d[i]]

\* an append that starts one element too far
AppendAtShifted(d, m, s) ==
    [i \in 1..Len(d) |-> IF m + 1 < i /\ i <= m + 1 + Len(s) THEN s[i - m - 1] ELSE d[i]]

\* append(d[:m], s...) while the capacity of d suffices: written in place
AppendAt(d, m, s) ==
    [i \in 1..Len(d) |-> IF m < i /\ i <= m + Len(s) THEN s[i - m] ELSE d[i]]

\* a length check that forgets b
BadLenForgetsB(d, x, y) == Len(d) < Len(x)

\* the guard of mergepgids: dst is too small
BadLen(d, x, y) == Len(d) < Len(x) + Len(y)

\* lead, follow := a, b, swapped when b[0] < a[0]
LeadOf(x, y)   == IF y[1] < x[1] THEN y ELSE x
FollowOf(x, y) == IF y[1] < x[1] THEN x ELSE y

\* One iteration of the loop of mergepgids on the state
\* s = [lead, follow, dst, mlen, brk]; brk is set by the break.
LoopBody(s) ==
    LET n   == Search(s.lead, s.follow[1])
        d   == AppendAt(s.dst, s.mlen, SubSeq(s.lead, 1, n))
    IN  IF n >= Len(s.lead)
        THEN [lead |-> s.lead, follow |-> s.follow, dst |-> d,
              mlen |-> s.mlen + n, brk |-> TRUE, n |-> n]
        ELSE [lead |-> s.follow, follow |-> SubSeq(s.lead, n + 1, Len(s.lead)),
              dst |-> d, mlen |-> s.mlen + n, brk |-> FALSE, n |-> n]

\* for len(lead) > 0 { ... }
LoopGoes(s) == Len(s.lead) > 0 /\ ~s.brk

RECURSIVE RunLoop(_)
RunLoop(s) == IF LoopGoes(s) THEN RunLoop(LoopBody(s)) ELSE s

\* a merge that forgets what is left in follow
AppendFollowForgotten(s) == s.dst

\* _ = append(merged, follow...)
AppendFollow(s) == AppendAt(s.dst, s.mlen, s.follow)

\* a mergepgids that copies a and then b without merging them
mergepgidsConcat(d, x, y) ==
    IF BadLen(d, x, y) THEN [outcome |-> "panic", dst |-> d]
    ELSE [outcome |-> "return", dst |-> AppendAt(Copy(d, x), Len(x), y)]

\* mergepgids(dst, a, b): the outcome and dst after the call
mergepgids(d, x, y) ==
    IF BadLen(d, x, y) THEN [outcome |-> "panic", dst |-> d]
    ELSE IF Len(x) = 0 THEN [outcome |-> "return", dst |-> Copy(d, y)]
    ELSE IF Len(y) = 0 THEN [outcome |-> "return", dst |-> Copy(d, x)]
    ELSE LET s0 == [lead |-> LeadOf(x, y), follow |-> FollowOf(x, y),
                    dst |-> d, mlen |-> 0, brk |-> FALSE, n |-> 0]
         IN  [outcome |-> "return", dst |-> AppendFollow(RunLoop(s0))]

\* a merge without the two early returns
mergeAlwaysCopies(x, y) ==
    [val |-> mergepgids(Make(Len(x) + Len(y)), x, y).dst, from |-> "merged"]

\* a.merge(b): the slice returned and the storage it refers to
merge(x, y) ==
    IF Len(x) = 0 THEN [val |-> y, from |-> "b"]
    ELSE IF Len(y) = 0 THEN [val |-> x, from |-> "a"]
    ELSE [val |-> mergepgids(Make(Len(x) + Len(y)), x, y).dst, from |-> "merged"]

(***************************************************************************)
(* The page header and page.typ.                                           *)
(***************************************************************************)
branchPageFlag   == 1
leafPageFlag     == 2
metaPageFlag     == 4
freelistPageFlag == 16

\* x & y on non-negative integers
RECURSIVE BitAnd(_, _)
BitAnd(x, y) ==
    IF x = 0 \/ y = 0 THEN 0
    ELSE (x % 2) * (y % 2) + 2 * BitAnd(x \div 2, y \div 2)

HexDigit(d) == <<"0", "1", "2", "3", "4", "5", "6", "7",
                 "8", "9", "a", "b", "c", "d", "e", "f">>[d + 1]

\* %x: lowercase hexadecimal, no padding
RECURSIVE Hex(_)
Hex(n) == IF n < 16 THEN HexDigit(n) ELSE Hex(n \div 16) \o HexDigit(n % 16)

\* %02x: padded with zeros to at least two digits
Sprintf02x(n) == IF n < 16 THEN "0" \o Hex(n) ELSE Hex(n)

\* a typ that names the meta and the freelist page the wrong way round
typSwapped(pg) ==
    IF BitAnd(pg.flags, branchPageFlag) # 0 THEN "branch"
    ELSE IF BitAnd(pg.flags, leafPageFlag) # 0 THEN "leaf"
    ELSE IF BitAnd(pg.flags, metaPageFlag) # 0 THEN "freelist"
    ELSE IF BitAnd(pg.flags, freelistPageFlag) # 0 THEN "meta"
    ELSE "unknown<" \o Sprintf02x(pg.flags) \o ">"

\* p.typ()
typ(pg) ==
    IF BitAnd(pg.flags, branchPageFlag) # 0 THEN "branch"
    ELSE IF BitAnd(pg.flags, leafPageFlag) # 0 THEN "leaf"
    ELSE IF BitAnd(pg.flags, metaPageFlag) # 0 THEN "meta"
    ELSE IF BitAnd(pg.flags, freelistPageFlag) # 0 THEN "freelist"
    ELSE "unknown<" \o Sprintf02x(pg.flags) \o ">"

(***************************************************************************)
(* Raw memory, the element records and their key and value views.          *)
(***************************************************************************)
pageHeaderSize        == 16   \* unsafe.Sizeof(page{}): u64 + u16 + u16 + u32
branchPageElementSize == 16   \* unsafe.Sizeof(branchPageElement{}): u32 + u32 + u64
leafPageElementSize   == 16   \* unsafe.Sizeof(leafPageElement{}): 4 * u32

\* the unsigned integer of k bytes stored at address x
RECURSIVE Load(_, _, _)
Load(m, x, k) == IF k = 0 THEN 0 ELSE m[x + 1] + 256 * Load(m, x + 1, k - 1)

\* the k bytes that store the unsigned integer n
RECURSIVE Store(_, _)
Store(n, k) == IF k = 0 THEN <<>> ELSE <<n % 256>> \o Store(n \div 256, k - 1)

\* the fields of the page at pp
pageFlags(m, pp) == Load(m, pp + 8, 2)
pageCount(m, pp) == Load(m, pp + 10, 2)

\* the fields of the leafPageElement at n
leafPos(m, n)   == Load(m, n + 4, 4)
leafKsize(m, n) == Load(m, n + 8, 4)
leafVsize(m, n) == Load(m, n + 12, 4)

\* the fields of the branchPageElement at n
branchPos(m, n)   == Load(m, n, 4)
branchKsize(m, n) == Load(m, n + 4, 4)

\* the nil slice
NilSlice == [Data |-> 0, Len |-> 0, Cap |-> 0]

\* &s[i] for a slice s of elements of the given size
ElemAddr(sl, i, size) == sl.Data + i * size

\* the bytes a []byte refers to
Bytes(m, sl) == [i \in 1..sl.Len |-> m[sl.Data + i]]

\* a leafPageElement that forgets the page header
leafPageElementNoHeader(pp, index) == pp + index * leafPageElementSize

\* p.leafPageElement(index): the address of the record
leafPageElement(pp, index) == pp + pageHeaderSize + index * leafPageElementSize

\* p.leafPageElements()
leafPageElements(m, pp) ==
    IF pageCount(m, pp) = 0 THEN NilSlice
    ELSE [Data |-> pp + pageHeaderSize, Len |-> pageCount(m, pp),
          Cap |-> pageCount(m, pp)]

\* p.branchPageElement(index): the address of the record
branchPageElement(pp, index) == pp + pageHeaderSize + index * branchPageElementSize

\* p.branchPageElements()
branchPageElements(m, pp) ==
    IF pageCount(m, pp) = 0 THEN NilSlice
    ELSE [Data |-> pp + pageHeaderSize, Len |-> pageCount(m, pp),
          Cap |-> pageCount(m, pp)]

\* n.key() of the branchPageElement at n
branchKey(m, n) ==
    [Data |-> n + branchPos(m, n), Len |-> branchKsize(m, n), Cap |-> branchKsize(m, n)]

\* n.key() of the leafPageElement at n
leafKey(m, n) ==
    [Data |-> n + leafPos(m, n), Len |-> leafKsize(m, n), Cap |-> leafKsize(m, n)]

\* a value that starts where the key starts
leafValueAtKey(m, n) ==
    [Data |-> n + leafPos(m, n), Len |-> leafVsize(m, n), Cap |-> leafVsize(m, n)]

\* n.value() of the leafPageElement at n
leafValue(m, n) ==
    [Data |-> n + leafPos(m, n) + leafKsize(m, n), Len |-> leafVsize(m, n),
     Cap |-> leafVsize(m, n)]

(***************************************************************************)
(* The layout of a page in memory: the header, count records, then the     *)
(* key (and value) bytes of the records one after the other.               *)
(***************************************************************************)
RECURSIVE DataLen(_, _)
DataLen(kv, n) ==
    IF n = 0 THEN 0 ELSE DataLen(kv, n - 1) + Len(kv[n].key) + Len(kv[n].value)

RECURSIVE DataBytes(_, _)
DataBytes(kv, n) ==
    IF n = 0 THEN <<>> ELSE DataBytes(kv, n - 1) \o kv[n].key \o kv[n].value

\* offset, from the start of the page, of the key bytes of record i (from 0)
KeyOffset(kv, i) == pageHeaderSize + leafPageElementSize * Len(kv) + DataLen(kv, i)

\* offset, from the start of the page, of record i (from 0)
RecordOffset(i) == pageHeaderSize + leafPageElementSize * i

HeaderBytes(id, flags, count, overflow) ==
    Store(id, 8) \o Store(flags, 2) \o Store(count, 2) \o Store(overflow, 4)

LeafRecord(kv, i) ==
    Store(0, 4) \o Store(KeyOffset(kv, i) - RecordOffset(i), 4)
        \o Store(Len(kv[i + 1].key), 4) \o Store(Len(kv[i + 1].value), 4)

BranchRecord(kv, i) ==
    Store(KeyOffset(kv, i) - RecordOffset(i), 4) \o Store(Len(kv[i + 1].key), 4)
        \o Store(i + 2, 8)

RECURSIVE Records(_, _, _)
Records(kv, n, leaf) ==
    IF n = 0 THEN <<>>
    ELSE Records(kv, n - 1, leaf)
            \o (IF leaf THEN LeafRecord(kv, n - 1) ELSE BranchRecord(kv, n - 1))

LeafPage(kv) ==
    HeaderBytes(5, leafPageFlag, Len(kv), 0) \o Records(kv, Len(kv), TRUE)
        \o DataBytes(kv, Len(kv))

BranchPage(kv) ==
    HeaderBytes(5, branchPageFlag, Len(kv), 0) \o Records(kv, Len(kv), FALSE)
        \o DataBytes(kv, Len(kv))

(***************************************************************************)
(* The inputs of the merge operations.                                     *)
(***************************************************************************)
PgidSeqs == SeqsUpTo(1..MaxPgid, MaxLen)
IntoSeqs == SeqsUpTo(1..IntoPgid, IntoLen)

\* the example of the documentation of merge
ExampleA == <<1, 3, 5, 9>>
ExampleB == <<2, 3, 7>>

NoCall ==
    /\ a = <<>> /\ b = <<>> /\ dst = <<>> /\ dst0 = <<>>
    /\ lead = <<>> /\ follow = <<>> /\ mlen = 0 /\ iters = 0 /\ lastN = 0
    /\ ret = <<>> /\ retFrom = "none"
NoPage  == p = [id |-> 0, flags |-> 0, count |-> 0, overflow |-> 0] /\ typResult = ""
NoMem   == mem = <<>> /\ ptr = 0 /\ kvs = <<>> /\ elems = [Data |-> 0, Len |-> 0, Cap |-> 0] /\ got = <<>>
NoChain == acc = <<>> /\ ids = EmptyBag /\ steps = 0 /\ shared = <<>>

(***************************************************************************)
(* SpecMerge: a call of a.merge(b).                                        *)
(***************************************************************************)
InitMerge ==
    /\ \E x \in (PgidSeqs \X PgidSeqs) \cup {<<ExampleA, ExampleB>>} :
          a = x[1] /\ b = x[2]
    /\ dst = <<>> /\ dst0 = <<>>
    /\ lead = <<>> /\ follow = <<>> /\ mlen = 0 /\ iters = 0 /\ lastN = 0
    /\ ret = <<>> /\ retFrom = "none"
    /\ pc = "call"
    /\ NoPage /\ NoMem /\ NoChain

CallMerge ==
    /\ pc = "call"
    /\ ret' = merge(a, b).val
    /\ retFrom' = merge(a, b).from
    /\ pc' = "returned"
    /\ UNCHANGED <<a, b, dst, dst0, lead, follow, mlen, iters, lastN>>
    /\ UNCHANGED <<typVars, pageVars, chainVars>>

NextMerge == CallMerge
SpecMerge == InitMerge /\ [][NextMerge]_vars

(***************************************************************************)
(* SpecInto: a call of mergepgids(dst, a, b), one loop iteration a step.   *)
(***************************************************************************)
InitInto ==
    /\ a \in IntoSeqs /\ b \in IntoSeqs
    /\ \E n \in 0..(Len(a) + Len(b) + MaxSlack) : dst = Make(n)
    /\ dst0 = dst
    /\ lead = <<>> /\ follow = <<>> /\ mlen = 0 /\ iters = 0 /\ lastN = 0
    /\ ret = <<>> /\ retFrom = "none"
    /\ pc = "call"
    /\ NoPage /\ NoMem /\ NoChain

\* lines 206-226: the length check, the two copies, the choice of lead
IntoEnter ==
    /\ pc = "call"
    /\ IF BadLen(dst, a, b)
         THEN pc' = "panic" /\ UNCHANGED <<dst, lead, follow>>
       ELSE IF Len(a) = 0
         THEN pc' = "return" /\ dst' = Copy(dst, b) /\ UNCHANGED <<lead, follow>>
       ELSE IF Len(b) = 0
         THEN pc' = "return" /\ dst' = Copy(dst, a) /\ UNCHANGED <<lead, follow>>
       ELSE /\ pc' = "loop"
            /\ lead' = LeadOf(a, b)
            /\ follow' = FollowOf(a, b)
            /\ UNCHANGED dst
    /\ UNCHANGED <<a, b, dst0, mlen, iters, lastN, ret, retFrom>>
    /\ UNCHANGED <<typVars, pageVars, chainVars>>

\* lines 229-239: the loop test and one iteration
IntoIter ==
    /\ pc = "loop"
    /\ LET s == [lead |-> lead, follow |-> follow, dst |-> dst, mlen |-> mlen,
                 brk |-> FALSE, n |-> 0]
       IN  IF LoopGoes(s)
           THEN LET t == LoopBody(s)
                IN  /\ lead' = t.lead /\ follow' = t.follow
                    /\ dst' = t.dst /\ mlen' = t.mlen
                    /\ lastN' = t.n /\ iters' = iters + 1
                    /\ pc' = IF t.brk THEN "tail" ELSE "loop"
           ELSE pc' = "tail" /\ UNCHANGED <<lead, follow, dst, mlen, lastN, iters>>
    /\ UNCHANGED <<a, b, dst0, ret, retFrom>>
    /\ UNCHANGED <<typVars, pageVars, chainVars>>

\* line 242: the rest of follow
IntoTail ==
    /\ pc = "tail"
    /\ dst' = AppendFollow([dst |-> dst, mlen |-> mlen, follow |-> follow])
    /\ pc' = "return"
    /\ UNCHANGED <<a, b, dst0, lead, follow, mlen, iters, lastN, ret, retFrom>>
    /\ UNCHANGED <<typVars, pageVars, chainVars>>

NextInto == IntoEnter \/ IntoIter \/ IntoTail
SpecInto == InitInto /\ [][NextInto]_vars

(***************************************************************************)
(* SpecTyp: a call of p.typ() on a page header.                            *)
(***************************************************************************)
InitTyp ==
    /\ p \in [id : 0..MaxField, flags : 0..MaxFlags, count : 0..MaxField,
               overflow : 0..MaxField]
    /\ typResult = ""
    /\ pc = "page"
    /\ NoCall /\ NoMem /\ NoChain

CallTyp ==
    /\ pc = "page"
    /\ typResult' = typ(p)
    /\ pc' = "typed"
    /\ UNCHANGED <<p, mergeVars, pageVars, chainVars>>

NextTyp == CallTyp
SpecTyp == InitTyp /\ [][NextTyp]_vars

(***************************************************************************)
(* SpecPage: a page laid out in memory is read back through the element    *)
(* slice and the key and value views.                                      *)
(***************************************************************************)
ByteVals    == {7, 200}
ByteStrings == SeqsUpTo(ByteVals, MaxKeyLen)
Pairs       == [key : ByteStrings, value : ByteStrings]
Keys        == [key : ByteStrings, value : {<<>>}]
PagePtrs    == {0, 8}

InitPage ==
    /\ ptr \in PagePtrs
    /\ \/ kvs \in SeqsUpTo(Pairs, MaxCount) /\ mem = Make(ptr) \o LeafPage(kvs)
       \/ kvs \in SeqsUpTo(Keys, MaxCount) /\ mem = Make(ptr) \o BranchPage(kvs)
    /\ elems = NilSlice /\ got = <<>>
    /\ pc = "mapped"
    /\ NoCall /\ NoPage /\ NoChain

\* elements, then key and value of each, of a leaf page
ReadLeaf ==
    /\ pc = "mapped"
    /\ BitAnd(pageFlags(mem, ptr), leafPageFlag) # 0
    /\ elems' = leafPageElements(mem, ptr)
    /\ got' = [i \in 1..elems'.Len |->
                 LET n == ElemAddr(elems', i - 1, leafPageElementSize)
                 IN  [key   |-> Bytes(mem, leafKey(mem, n)),
                      value |-> Bytes(mem, leafValue(mem, n))]]
    /\ pc' = "read"
    /\ UNCHANGED <<mem, ptr, kvs, mergeVars, typVars, chainVars>>

\* elements, then key of each, of a branch page
ReadBranch ==
    /\ pc = "mapped"
    /\ BitAnd(pageFlags(mem, ptr), branchPageFlag) # 0
    /\ elems' = branchPageElements(mem, ptr)
    /\ got' = [i \in 1..elems'.Len |->
                 LET n == ElemAddr(elems', i - 1, branchPageElementSize)
                 IN  [key   |-> Bytes(mem, branchKey(mem, n)),
                      value |-> <<>>]]
    /\ pc' = "read"
    /\ UNCHANGED <<mem, ptr, kvs, mergeVars, typVars, chainVars>>

NextPage == ReadLeaf \/ ReadBranch
SpecPage == InitPage /\ [][NextPage]_vars

(***************************************************************************)
(* SpecChain: acc = acc.merge(B), again and again, from the empty list.    *)
(***************************************************************************)
SortedSets == {s \in PgidSeqs : StrictAsc(s)}

InitChain ==
    /\ acc = <<>> /\ ids = EmptyBag /\ steps = 0 /\ shared = <<>>
    /\ pc = "chain"
    /\ NoCall /\ NoPage /\ NoMem

ChainMerge ==
    /\ pc = "chain"
    /\ steps < MaxSteps
    /\ \E B \in SortedSets :
          /\ acc' = merge(acc, B).val
          /\ ids' = ids (+) BagOf(B)
          /\ shared' = Append(shared, Range(acc) \cap Range(B))
    /\ steps' = steps + 1
    /\ UNCHANGED <<mergeVars, typVars, pageVars, pc>>

NextChain == ChainMerge
SpecChain == InitChain /\ [][NextChain]_vars

(***************************************************************************)
(* Properties of merge and mergepgids.                                     *)
(***************************************************************************)
Total == Len(a) + Len(b)
CountIn(s, v) == Cardinality({i \in 1..Len(s) : s[i] = v})

\* C1: for a and b each sorted ascending without duplicates (values shared
\* between them allowed), merge(a, b) is sorted ascending, has length
\* len(a)+len(b) and holds every value as often as a and b together do; the
\* documented example gives <<1,2,3,3,5,7,9>>.
MergeCorrect ==
    pc = "returned" /\ StrictAsc(a) /\ StrictAsc(b) =>
        /\ Asc(ret)
        /\ Len(ret) = Len(a) + Len(b)
        /\ \A v \in Range(a) \cup Range(b) \cup Range(ret) :
              CountIn(ret, v) = CountIn(a, v) + CountIn(b, v)
        /\ (a = ExampleA /\ b = ExampleB => ret = <<1, 2, 3, 3, 5, 7, 9>>)

MergeCorrectWitness ==
    /\ pc = "returned" /\ a = ExampleA /\ b = ExampleB
    /\ CountIn(ret, 3) = 2 /\ retFrom = "merged"

\* C2: merge(<<>>, X) = X and merge(X, <<>>) = X for every X, sorted or not,
\* and the slice returned is the other argument itself, not a merged copy.
MergeEmptyIdentity ==
    pc = "returned" =>
        /\ (Len(a) = 0 => ret = b /\ retFrom = "b")
        /\ (Len(b) = 0 => ret = a /\ retFrom # "merged")
        /\ (Len(b) = 0 /\ Len(a) > 0 => retFrom = "a")

MergeEmptyIdentityWitness ==
    /\ pc = "returned" /\ Len(b) = 0 /\ Len(a) = MaxLen /\ ~Asc(a)
    /\ ret = a /\ retFrom = "a"

\* C3: mergepgids called with len(dst) < len(a)+len(b) panics, never
\* returns, and dst is then as it was before the call.
UndersizedPanics ==
    pc # "call" /\ Len(dst0) < Len(a) + Len(b) => pc = "panic" /\ dst = dst0

UndersizedPanicsWitness ==
    pc = "panic" /\ Len(a) = 0 /\ Len(b) > 0 /\ Len(dst0) = Len(b) - 1

\* C8: for non-empty a and b, sorted or not, at the head of every iteration
\* of the loop follow is non-empty and lead[0] <= follow[0], every iteration
\* appends n >= 1 elements, there are at most len(a)+len(b) iterations, no
\* element is lost or repeated on the way, and at the return dst[:total]
\* holds every element of a and b exactly once.  The call is never stuck
\* before it returns or panics, so with the bound on the iterations it ends.
LoopProgress ==
    /\ pc \in {"return", "panic"} \/ ENABLED NextInto
    /\ pc = "loop" => Len(lead) > 0 /\ Len(follow) > 0 /\ lead[1] <= follow[1]
    /\ iters >= 1 => lastN >= 1
    /\ iters <= Total
    /\ pc \in {"loop", "tail"} =>
          /\ mlen >= iters
          /\ \A v \in Range(a) \cup Range(b) :
                CountIn(SubSeq(dst, 1, mlen), v) + CountIn(lead, v) * (IF pc = "tail" THEN 0 ELSE 1)
                    + CountIn(follow, v) = CountIn(a, v) + CountIn(b, v)
    /\ pc = "return" /\ Len(a) > 0 /\ Len(b) > 0 =>
          /\ iters >= 1
          /\ \A v \in Range(a) \cup Range(b) \cup Range(SubSeq(dst, 1, Total)) :
                CountIn(SubSeq(dst, 1, Total), v) = CountIn(a, v) + CountIn(b, v)

LoopProgressWitness ==
    /\ pc = "return" /\ iters >= 3 /\ lastN >= 1 /\ Len(a) = IntoLen /\ Len(b) = IntoLen

MergeFrameState ==
    Len(dst0) >= Len(a) + Len(b) =>
        /\ Len(dst) = Len(dst0)
        /\ mlen <= Total
        /\ \A i \in (Total + 1)..Len(dst0) : dst[i] = dst0[i]

\* C9: a mergepgids that does not panic writes only dst[0 .. total-1]:
\* the elements of dst from index total on keep their values, len(dst) is
\* unchanged, and so are a and b; also when a or b is empty.
MergeFrame == []MergeFrameState /\ [][a' = a /\ b' = b /\ dst0' = dst0]_vars

MergeFrameWitness ==
    /\ pc = "return" /\ Len(dst0) > Total /\ Len(a) > 0 /\ Len(b) > 0
    /\ \A i \in 1..Total : dst[i] # 0

MergeFrameWitnessEmpty ==
    pc = "return" /\ Len(dst0) > Total /\ Len(a) = 0 /\ Len(b) > 0

\* C10: merging pairwise disjoint sorted duplicate-free lists one after the
\* other from the empty list keeps the accumulated list strictly ascending
\* and equal to the ids merged so far; the first step whose inputs share a
\* value leaves each shared value twice in the result, which is then no
\* longer strictly ascending.
ChainClosed ==
    LET n == Len(shared)
    IN  /\ (\A i \in 1..n : shared[i] = {}) =>
              /\ StrictAsc(acc)
              /\ Range(acc) = BagToSet(ids)
              /\ \A v \in Range(acc) : CopiesIn(v, ids) = 1
        /\ (n >= 1 /\ shared[n] # {} /\ \A i \in 1..(n - 1) : shared[i] = {}) =>
              /\ ~StrictAsc(acc)
              /\ \A v \in shared[n] : CountIn(acc, v) = 2

ChainClosedWitness ==
    /\ steps = MaxSteps /\ Len(acc) >= 3
    /\ \A i \in 1..Len(shared) : shared[i] = {}
    /\ \E i \in 1..(Len(acc) - 1) : acc[i] + 1 < acc[i + 1]

ChainSharedWitness ==
    /\ Len(shared) = 2 /\ shared[1] = {} /\ shared[2] # {} /\ ~StrictAsc(acc)

(***************************************************************************)
(* Properties of page.typ.                                                 *)
(***************************************************************************)
KnownNames == {"branch", "leaf", "meta", "freelist"}
KnownFlags == {branchPageFlag, leafPageFlag, metaPageFlag, freelistPageFlag}

\* C4: for every flags value other than exactly 0x01, 0x02, 0x04 and 0x10,
\* typ returns "unknown<XX>" with XX the flags in lowercase hex of at least
\* two digits, and never one of the four known names.
TypUnknownForOthers ==
    pc = "typed" /\ p.flags \notin KnownFlags =>
        /\ typResult = "unknown<" \o Sprintf02x(p.flags) \o ">"
        /\ typResult \notin KnownNames

TypKnownState ==
    pc = "typed" =>
        /\ (p.flags = 1 => typResult = "branch")
        /\ (p.flags = 2 => typResult = "leaf")
        /\ (p.flags = 4 => typResult = "meta")
        /\ (p.flags = 16 => typResult = "freelist")

\* C5: typ returns "branch" for flags 0x01, "leaf" for 0x02, "meta" for 0x04
\* and "freelist" for 0x10, whatever id, count and overflow are, and the call
\* changes no field of the page.
TypKnown == []TypKnownState /\ [][p' = p]_vars

TypKnownWitness ==
    /\ pc = "typed" /\ p.flags = 16 /\ typResult = "freelist"
    /\ p.id = MaxField /\ p.count = 0 /\ p.overflow = MaxField

(***************************************************************************)
(* Properties of the element records and their views.                      *)
(***************************************************************************)
IsLeaf == BitAnd(pageFlags(mem, ptr), leafPageFlag) # 0
ElemSize == IF IsLeaf THEN leafPageElementSize ELSE branchPageElementSize
ElementAt(i) == IF IsLeaf THEN leafPageElement(ptr, i) ELSE branchPageElement(ptr, i)

\* C6: on a branch or leaf page the element slice has exactly count
\* entries, entry i is the record elementAt(i), which occupies the bytes
\* [header_size + i*element_size, header_size + (i+1)*element_size) of the
\* page, so that records overlap neither each other nor the header; with
\* count = 0 the slice is empty.
ElementsAreRecords ==
    pc = "read" =>
        /\ elems.Len = pageCount(mem, ptr)
        /\ elems.Len = Len(kvs)
        /\ \A i \in 0..(elems.Len - 1) :
              /\ ElemAddr(elems, i, ElemSize) = ElementAt(i)
              /\ ElementAt(i) - ptr = 16 + i * 16   \* both sizes are 16 bytes
              /\ ElementAt(i) >= ptr + pageHeaderSize
              /\ ElementAt(i) + ElemSize <= Len(mem)
              /\ \A j \in 0..(elems.Len - 1) :
                    i < j => ElemAddr(elems, i, ElemSize) + ElemSize
                                <= ElemAddr(elems, j, ElemSize)
        /\ (pageCount(mem, ptr) = 0 => elems.Len = 0 /\ got = <<>>)

ElementsAreRecordsWitness ==
    pc = "read" /\ IsLeaf /\ elems.Len = MaxCount /\ ptr > 0

ElementsEmptyWitness ==
    pc = "read" /\ ~IsLeaf /\ pageCount(mem, ptr) = 0 /\ elems.Len = 0

\* C7: the (key, value) pairs laid out as the leaf records of a page are
\* read back through elements, key and value exactly as they were, in the
\* same order, key of length ksize and value of length vsize, empty keys
\* and empty values included.
LeafRoundTrip ==
    pc = "read" /\ IsLeaf =>
        /\ got = kvs
        /\ \A i \in 1..Len(kvs) :
              LET n == ElemAddr(elems, i - 1, leafPageElementSize)
              IN  /\ Len(got[i].key) = leafKsize(mem, n)
                  /\ Len(got[i].value) = leafVsize(mem, n)
                  /\ leafValue(mem, n).Data = n + leafPos(mem, n) + leafKsize(mem, n)

LeafRoundTripWitness ==
    /\ pc = "read" /\ IsLeaf /\ Len(kvs) = MaxCount /\ got = kvs
    /\ \E i \in 1..Len(kvs) : Len(kvs[i].key) > 0 /\ Len(kvs[i].value) = 0
    /\ \E i \in 1..Len(kvs) :
          Len(kvs[i].key) > 0 /\ Len(kvs[i].value) > 0 /\ kvs[i].key # kvs[i].value

====
